---------------------------- MODULE Spec2Model ----------------------------
(***************************************************************************)
(* A model of finetune_lm.py: the NCDataset container, the BertClassifier  *)
(* head (constructor and forward pass, at the level of tensor shapes and   *)
(* of which input element every output element is computed from), the     *)
(* split construction (mask -> index list -> texts), and the five-seed     *)
(* experiment driver with its accuracy accumulator and final report.       *)
(*                                                                         *)
(* Python values are represented as follows.                               *)
(*   list / 1-d tensor   a sequence; Python position k is element k+1      *)
(*   node ids            0 .. NumNodes-1, as in Python                     *)
(*   tensor              [shape |-> <<...>>, vals |-> ...]                 *)
(*   float               an exact fraction <<num, den>> in lowest terms,   *)
(*                       den > 0; NaN is <<0, 0>>                          *)
(*   raised exception    [ok |-> FALSE, ...] from an operator, or the      *)
(*                       driver moving to pc = "aborted"                   *)
(***************************************************************************)
EXTENDS Integers, Sequences, FiniteSets, TLC

(***************************************************************************)
(* Bounds of the model.                                                    *)
(***************************************************************************)
\* number of nodes of the arbitrary dataset one trial's preparation is run on
NumNodes == 4
\* number of nodes of the dataset the loader returns in the five-seed run
CoraNodes == 3
\* forward pass: largest batch size, sequence length and hidden size tried
MaxBatch == 2
MaxSeqLen == 2
MaxHidden == 2

(***************************************************************************)
(* Program constants.                                                      *)
(***************************************************************************)
\* for i in range(5)
NumTrials == 5
\* num_classes = 7
num_classes == 7
\* tokenizer(..., max_length=256)
max_length == 256

Nodes == 0 .. (NumNodes - 1)
CoraNodeIds == 0 .. (CoraNodes - 1)

(***************************************************************************)
(* Small arithmetic helpers.                                               *)
(***************************************************************************)
Abs(x) == IF x < 0 THEN -x ELSE x

RECURSIVE Gcd(_, _)
Gcd(a, b) == IF b = 0 THEN a ELSE Gcd(b, a % b)

Lcm(a, b) == (a \div Gcd(a, b)) * b

RECURSIVE SumSeq(_)
SumSeq(s) == IF s = <<>> THEN 0 ELSE Head(s) + SumSeq(Tail(s))

Max2(a, b) == IF a >= b THEN a ELSE b

RECURSIVE MaxSeq(_)
MaxSeq(s) == IF s = <<>> THEN 0 ELSE Max2(Head(s), MaxSeq(Tail(s)))

(***************************************************************************)
(* Floats as exact fractions.                                              *)
(***************************************************************************)
NaN == <<0, 0>>
IsNaN(x) == x[2] = 0

\* p / q in lowest terms with a positive denominator (q # 0)
Frac(p, q) ==
    LET g == Gcd(Abs(p), Abs(q))
        s == IF q < 0 THEN -1 ELSE 1
    IN  <<(s * p) \div g, (s * q) \div g>>

\* numpy true division of an integer count by a Python int: 0/0 is nan
\* (a RuntimeWarning, not an exception)
TrueDivide(p, q) == IF q = 0 THEN NaN ELSE Frac(p, q)

FAdd(x, y) ==
    IF IsNaN(x) \/ IsNaN(y) THEN NaN
    ELSE LET l == Lcm(x[2], y[2])
         IN  Frac(x[1] * (l \div x[2]) + y[1] * (l \div y[2]), l)

FNeg(x) == IF IsNaN(x) THEN NaN ELSE <<-x[1], x[2]>>

FSub(x, y) == FAdd(x, FNeg(y))

FMul(x, y) ==
    IF IsNaN(x) \/ IsNaN(y) THEN NaN
    ELSE LET g1 == Gcd(Abs(x[1]), y[2])
             g2 == Gcd(Abs(y[1]), x[2])
             h1 == IF g1 = 0 THEN 1 ELSE g1
             h2 == IF g2 = 0 THEN 1 ELSE g2
         IN  Frac((x[1] \div h1) * (y[1] \div h2), (x[2] \div h2) * (y[2] \div h1))

FDivInt(x, n) ==
    IF IsNaN(x) \/ n = 0 THEN NaN
    ELSE LET g == Gcd(Abs(x[1]), n)
             h == IF g = 0 THEN 1 ELSE g
         IN  Frac(x[1] \div h, x[2] * (n \div h))

RECURSIVE FSum(_)
FSum(s) == IF s = <<>> THEN <<0, 1>> ELSE FAdd(Head(s), FSum(Tail(s)))

(***************************************************************************)
(* Split construction: lines 126-131 and collect_txt.                      *)
(***************************************************************************)
\* the node ids of a set, in ascending order
RECURSIVE Ascending(_)
Ascending(S) ==
    IF S = {} THEN <<>>
    ELSE LET m == CHOOSE x \in S : \A y \in S : x <= y
         IN  <<m>> \o Ascending(S \ {m})

\* mask.nonzero(): a (k x 1) tensor of the positions holding True, in
\* ascending (row-major) order
nonzero(mask) ==
    LET idx == Ascending({n \in DOMAIN mask : mask[n]})
    IN  [shape |-> <<Len(idx), 1>>, vals |-> idx]

\* tensor.squeeze(): every dimension of size 1 is removed, so a (1 x 1)
\* tensor becomes a 0-dimensional one
squeeze(t) ==
    [shape |-> SelectSeq(t.shape, LAMBDA d : d # 1), vals |-> t.vals]

\* tensor.tolist(): a 0-dimensional tensor gives a plain Python int, a
\* 1-dimensional one gives a list
tolist(t) ==
    IF t.shape = <<>> THEN [kind |-> "int", items |-> t.vals]
    ELSE [kind |-> "list", items |-> t.vals]

\* mask.nonzero().squeeze().tolist()
MaskToIdx(mask) == tolist(squeeze(nonzero(mask)))

\* collect_txt(idx, txt): iterating an int raises TypeError
collect_txt(idx, txt) ==
    IF idx.kind # "list" THEN [ok |-> FALSE, val |-> <<>>]
    ELSE [ok |-> TRUE,
          val |-> [k \in 1 .. Len(idx.items) |-> txt[idx.items[k]]]]

(***************************************************************************)
(* The tokenizer call of lines 133-135:                                    *)
(*   tokenizer(txt, truncation=True, padding=True, return_tensors="pt",    *)
(*             max_length=256)                                             *)
(* A text is a sequence of word ids.  Every text is wrapped in the         *)
(* classification and separator tokens, cut to max_length tokens, and the  *)
(* batch is padded on the right to its longest row.                        *)
(***************************************************************************)
CLS == 101
SEP == 102
PAD == 0

\* one text: [CLS] words [SEP], the words cut so the row fits max_length
EncodeOne(t) ==
    <<CLS>> \o SubSeq(t, 1, IF Len(t) > max_length - 2 THEN max_length - 2 ELSE Len(t))
            \o <<SEP>>

PadTo(row, n, fill) == row \o [k \in 1 .. (n - Len(row)) |-> fill]

\* the BatchEncoding of a list of texts: one row per text, in list order
tokenizer(txts) ==
    LET rows == [k \in 1 .. Len(txts) |-> EncodeOne(txts[k])]
        width == MaxSeq([k \in 1 .. Len(rows) |-> Len(rows[k])])
    IN  [input_ids |-> [k \in 1 .. Len(rows) |-> PadTo(rows[k], width, PAD)],
         attention_mask |->
             [k \in 1 .. Len(rows) |->
                 PadTo([j \in 1 .. Len(rows[k]) |-> 1], width, 0)]]

\* a slip: the first len(idx) labels, data.y[:len(idx)], instead of a gather
IndexByList_slice(y, idx) == [k \in 1 .. Len(idx.items) |-> y[k - 1]]

(***************************************************************************)
(* data.y[idx]: advanced indexing of the label tensor by a list of node    *)
(* ids gathers the labels in list order.                                   *)
(***************************************************************************)
IndexByList(y, idx) == [k \in 1 .. Len(idx.items) |-> y[idx.items[k]]]

(***************************************************************************)
(* class NCDataset                                                         *)
(***************************************************************************)
\* NCDataset.__init__
NCDataset(encodings, labels) == [encodings |-> encodings, labels |-> labels]

\* NCDataset.__len__
NCDataset_len(ds) == Len(ds.labels)

\* NCDataset.__getitem__ (idx is a Python position, from 0)
NCDataset_getitem(ds, idx) ==
    [key \in DOMAIN ds.encodings \cup {"labels"} |->
        IF key = "labels" THEN ds.labels[idx + 1]
        ELSE ds.encodings[key][idx + 1]]

(***************************************************************************)
(* class BertClassifier.  A tensor is its shape together with, for every   *)
(* row, what the row was computed from: the encoder's final hidden state   *)
(* of batch item `item` at sequence position `pos`, and the linear layers  *)
(* applied to it since, in order.                                          *)
(***************************************************************************)
\* int(feat_shrink) for the strings tried
StrToInt(s) == CASE s = "1" -> 1 [] s = "2" -> 2 [] OTHER -> 0

\* nn.Linear(in_features, out_features, bias)
Linear(name, in_features, out_features, bias) ==
    [name |-> name, in_features |-> in_features, out_features |-> out_features,
     bias |-> bias]

NoLayer == Linear("none", 0, 0, FALSE)

\* BertClassifier.__init__(model, n_labels, dropout, seed, cla_bias, feat_shrink)
\* `if feat_shrink:` is true for every non-empty string
BertClassifier_init(hidden_size, n_labels, cla_bias, feat_shrink) ==
    LET shrink == feat_shrink # ""
        hidden_dim == IF shrink THEN StrToInt(feat_shrink) ELSE hidden_size
    IN  [feat_shrink |-> feat_shrink,
         hidden_size |-> hidden_size,
         feat_shrink_layer |->
             IF shrink
             THEN Linear("feat_shrink_layer", hidden_size, StrToInt(feat_shrink), cla_bias)
             ELSE NoLayer,
         classifier |-> Linear("classifier", hidden_dim, n_labels, cla_bias)]

\* the encoder's outputs['hidden_states'][-1] for a (B x L) batch
LastHiddenState(B, L, H) ==
    [shape |-> <<B, L, H>>,
     vals |-> [b \in 0 .. (B - 1) |->
                  [l \in 0 .. (L - 1) |-> [item |-> b, pos |-> l, layers |-> <<>>]]]]

\* self.dropout(t): the shape and the provenance of every row are kept
Dropout(t) == t

\* emb.permute(1, 0, 2): the batch and sequence axes are swapped
Permute102(t) ==
    [shape |-> <<t.shape[2], t.shape[1], t.shape[3]>>,
     vals |-> [l \in 0 .. (t.shape[2] - 1) |->
                  [b \in 0 .. (t.shape[1] - 1) |-> t.vals[b][l]]]]

\* a slip: t[-1], the last position of the leading axis
Index0_last(t) ==
    IF t.shape[1] = 0 THEN [ok |-> FALSE, shape |-> <<>>, vals |-> <<>>]
    ELSE [ok |-> TRUE, shape |-> Tail(t.shape), vals |-> t.vals[t.shape[1] - 1]]

\* t[0] on the leading axis; an empty leading axis raises IndexError
Index0(t) ==
    IF t.shape[1] = 0 THEN [ok |-> FALSE, shape |-> <<>>, vals |-> <<>>]
    ELSE [ok |-> TRUE, shape |-> Tail(t.shape), vals |-> t.vals[0]]

\* layer(x) for a (B x in_features) input; a wrong last dimension raises
ApplyLinear(layer, x) ==
    IF x.shape[Len(x.shape)] # layer.in_features
    THEN [ok |-> FALSE, shape |-> <<>>, vals |-> <<>>]
    ELSE [ok |-> TRUE,
          shape |-> <<x.shape[1], layer.out_features>>,
          vals |-> [b \in DOMAIN x.vals |->
                       [x.vals[b] EXCEPT !.layers = Append(@, layer.name)]]]

Raised(step) ==
    [raised |-> TRUE, at |-> step, has_loss |-> FALSE,
     logits |-> [shape |-> <<>>, vals |-> <<>>]]

\* a change of behaviour: the loss computed only `if labels is not None`
forward_guarded(self, B, L, labels) ==
    LET emb == Dropout(LastHiddenState(B, L, self.hidden_size))
        cls0 == Index0(Permute102(emb))
        cls_token_emb ==
            IF self.feat_shrink # "" THEN ApplyLinear(self.feat_shrink_layer, cls0)
            ELSE cls0
        logits == ApplyLinear(self.classifier, cls_token_emb)
    IN  IF ~cls0.ok THEN Raised("cls_token_emb")
        ELSE IF ~cls_token_emb.ok THEN Raised("feat_shrink_layer")
        ELSE IF ~logits.ok THEN Raised("classifier")
        ELSE [raised |-> FALSE, at |-> "return", has_loss |-> labels # "None",
              logits |-> [shape |-> logits.shape, vals |-> logits.vals]]

\* BertClassifier.forward(input_ids, attention_mask, labels): the input is
\* a (B x L) batch; labels is "None" or "tensor" (a (B) tensor of class ids)
forward(self, B, L, labels) ==
    LET emb == Dropout(LastHiddenState(B, L, self.hidden_size))
        cls0 == Index0(Permute102(emb))
        cls_token_emb ==
            IF self.feat_shrink # "" THEN ApplyLinear(self.feat_shrink_layer, cls0)
            ELSE cls0
        logits == ApplyLinear(self.classifier, cls_token_emb)
    IN  IF ~cls0.ok THEN Raised("cls_token_emb")
        ELSE IF ~cls_token_emb.ok THEN Raised("feat_shrink_layer")
        ELSE IF ~logits.ok THEN Raised("classifier")
        ELSE IF labels = "None" THEN Raised("loss_func")
        ELSE [raised |-> FALSE, at |-> "return", has_loss |-> TRUE,
              logits |-> [shape |-> logits.shape, vals |-> logits.vals]]

(***************************************************************************)
(* np.argmax(row): the first position holding the largest value.           *)
(***************************************************************************)
argmax(row) ==
    CHOOSE c \in 0 .. (Len(row) - 1) :
        /\ \A d \in 0 .. (Len(row) - 1) : row[d + 1] <= row[c + 1]
        /\ \A d \in 0 .. (c - 1) : row[d + 1] < row[c + 1]

\* (preds == label_ids).sum()
CountEqual(a, b) == Cardinality({k \in 1 .. Len(a) : a[k] = b[k]})

\* acc = (preds == predictions.label_ids).sum() / len(predictions.label_ids)
Accuracy(p, label_ids) == TrueDivide(CountEqual(p, label_ids), Len(label_ids))

(***************************************************************************)
(* np.mean, np.std and the two-decimal percentage format of line 187.      *)
(***************************************************************************)
\* np.mean(a): the sum divided by the number of entries
np_mean(a) == FDivInt(FSum(a), Len(a))

\* a slip: the sample variance (ddof = 1)
np_var_sample(a) ==
    LET m == np_mean(a)
        dev == [k \in 1 .. Len(a) |-> FSub(a[k], m)]
    IN  FDivInt(FSum([k \in 1 .. Len(a) |-> FMul(dev[k], dev[k])]), Len(a) - 1)

\* the square of np.std(a): the mean of the squared deviations from the
\* mean, i.e. the divisor is len(a) (ddof = 0)
np_var(a) ==
    LET m == np_mean(a)
        dev == [k \in 1 .. Len(a) |-> FSub(a[k], m)]
    IN  FDivInt(FSum([k \in 1 .. Len(a) |-> FMul(dev[k], dev[k])]), Len(a))

\* np.std(a), kept as the fraction under the square root
np_std(a) == [radicand |-> np_var(a)]

\* the largest s in lo .. hi with s * s <= n (lo * lo <= n)
RECURSIVE ISqrtIn(_, _, _)
ISqrtIn(n, lo, hi) ==
    IF lo >= hi THEN lo
    ELSE LET mid == (lo + hi + 1) \div 2
         IN  IF mid * mid <= n THEN ISqrtIn(n, mid, hi) ELSE ISqrtIn(n, lo, mid - 1)

ISqrt(n) == ISqrtIn(n, 0, 46340)

\* f"{x*100:.2f}" as the integer number of hundredths of a percent, the
\* value nearest to x * 10^4; nan prints as "nan"
Fmt2(x) ==
    IF IsNaN(x) THEN [nan |-> TRUE, digits |-> 0]
    ELSE [nan |-> FALSE,
          digits |-> (2 * 10000 * x[1] + x[2]) \div (2 * x[2])]

\* the same for a square root: the integer nearest to sqrt(r * 10^8)
Fmt2Sqrt(x) ==
    IF IsNaN(x.radicand) THEN [nan |-> TRUE, digits |-> 0]
    ELSE LET r == x.radicand
             g == Gcd(100000000, r[2])
             P == (100000000 \div g) * r[1]
             R == r[2] \div g
             s == ISqrt(P \div R)
         IN  [nan |-> FALSE,
              digits |-> IF 4 * (P - R * (s * s + s)) >= R THEN s + 1 ELSE s]

(***************************************************************************)
(* The state of the script (__main__) and of one BertClassifier call.      *)
(***************************************************************************)
VARIABLES
    config,             \* the parsed arguments: [lm_type |-> ...]
    pc,                 \* the driver's position
    err,                \* the exception that ended the run ("" while none)
    i,                  \* the loop variable of `for i in range(5)`
    data, text,         \* get_raw_text_cora's result
    objects,            \* the model objects constructed so far, by identity
    bert_model, model,  \* identities (positions in objects), 0 while unbound
    train_idx, val_idx, test_idx,
    train_txt, val_txt, test_txt,
    train_encodings, val_encodings, test_encodings,
    train_dataset, val_dataset, test_dataset,
    trainer,            \* identity of the model the Trainer holds, 0 while unbound
    preds, acc,
    acc_list,
    final_acc, final_acc_std,
    out,                \* the lines printed so far
    fpc,                \* BertClassifier: "idle", "args", "built", "called"
    clf_args, clf,      \* constructor arguments, constructed classifier
    batch, output       \* arguments and result of the forward call

splitVars == <<train_idx, val_idx, test_idx, train_txt, val_txt, test_txt>>
encVars == <<train_encodings, val_encodings, test_encodings>>
dsVars == <<train_dataset, val_dataset, test_dataset>>
modelVars == <<objects, bert_model, model, trainer>>
resultVars == <<preds, acc, acc_list, final_acc, final_acc_std, out>>
fwdVars == <<fpc, clf_args, clf, batch, output>>
vars == <<config, pc, err, i, data, text, splitVars, encVars, dsVars,
          modelVars, resultVars, fwdVars>>

\* mode_id
mode_id ==
    [sentencebert |-> "sentence-transformers/bert-base-nli-mean-tokens",
     deberta |-> "microsoft/deberta-base",
     bert |-> "bert-base-uncased"]

\* the values of config.lm_type tried: one key of mode_id and one that is not
LmTypes == {"bert", "roberta"}

NoIdx == [kind |-> "unbound", items |-> <<>>]
NoEncodings == [input_ids |-> <<>>, attention_mask |-> <<>>]
NoDataset == NCDataset(NoEncodings, <<>>)
NoStd == [radicand |-> NaN]
NoClf == BertClassifier_init(0, 0, FALSE, "")

(***************************************************************************)
(* What get_raw_text_cora may return.                                      *)
(***************************************************************************)
Masks == [Nodes -> BOOLEAN]

\* the text corpora tried: texts that repeat, and texts that all differ
\* and differ in length
Corpora ==
    {[n \in Nodes |-> IF n % 2 = 0 THEN <<7>> ELSE <<7, 8>>],
     [n \in Nodes |-> [k \in 1 .. (1 + (n % 2)) |-> 10 + n]]}

\* the label tensors tried: labels that identify the node, and labels that
\* repeat (the first and the last class in turn)
LabelMaps ==
    {[n \in Nodes |-> n % num_classes],
     [n \in Nodes |-> IF n % 2 = 0 THEN 0 ELSE num_classes - 1]}

\* any dataset over Nodes: the masks need not be exclusive
Datasets ==
    [train_mask : Masks, val_mask : Masks, test_mask : Masks, y : LabelMaps]

\* the datasets the loader returns in the five-seed run: the same labels
\* and texts for every seed, and a seed-dependent split into three blocks
\* of consecutive nodes (train, then val, then test)
BlockSplit(a, b) ==
    [train_mask |-> [n \in CoraNodeIds |-> n < a],
     val_mask |-> [n \in CoraNodeIds |-> a <= n /\ n < b],
     test_mask |-> [n \in CoraNodeIds |-> b <= n],
     y |-> [n \in CoraNodeIds |-> IF n % 2 = 0 THEN 0 ELSE num_classes - 1]]

CoraText == [n \in CoraNodeIds |-> [k \in 1 .. (1 + (n % 2)) |-> 10 + n]]

\* the rows predictions.predictions may hold: the largest logit at class
\* 0, at the last class, and a tie between all classes
LogitRows ==
    {[c \in 1 .. num_classes |-> IF c = 1 THEN 1 ELSE 0],
     [c \in 1 .. num_classes |-> IF c = num_classes THEN 1 ELSE 0],
     [c \in 1 .. num_classes |-> 0]}

(***************************************************************************)
(* The driver: lines 114-187.                                              *)
(***************************************************************************)
DriverInit ==
    /\ config \in [lm_type : LmTypes]
    /\ pc = "load"
    /\ err = ""
    /\ i = 0
    /\ data = BlockSplit(0, 0)
    /\ text = <<>>
    /\ objects = <<>>
    /\ bert_model = 0 /\ model = 0 /\ trainer = 0
    /\ train_idx = NoIdx /\ val_idx = NoIdx /\ test_idx = NoIdx
    /\ train_txt = <<>> /\ val_txt = <<>> /\ test_txt = <<>>
    /\ train_encodings = NoEncodings
    /\ val_encodings = NoEncodings
    /\ test_encodings = NoEncodings
    /\ train_dataset = NoDataset /\ val_dataset = NoDataset
    /\ test_dataset = NoDataset
    /\ preds = <<>>
    /\ acc = NaN
    /\ acc_list = <<>>
    /\ final_acc = NaN
    /\ final_acc_std = NoStd
    /\ out = <<>>

FwdIdle ==
    /\ fpc = "idle"
    /\ clf_args = [hidden_size |-> 0, n_labels |-> 0, cla_bias |-> FALSE,
                   feat_shrink |-> ""]
    /\ clf = NoClf
    /\ batch = [B |-> 0, L |-> 0, labels |-> "None"]
    /\ output = Raised("none")

Init == DriverInit /\ FwdIdle

\* line 116-117: data, text = get_raw_text_cora(use_text=True, seed=i)
Load ==
    /\ pc = "load"
    /\ \E a \in 0 .. CoraNodes : \E b \in a .. CoraNodes :
           data' = BlockSplit(a, b)
    /\ text' = CoraText
    /\ pc' = "model"
    /\ UNCHANGED <<config, err, i, splitVars, encVars, dsVars, modelVars,
                   resultVars, fwdVars>>

\* a slip: the encoder and the classifier built once and reused by every
\* later trial (the construction hoisted out of the loop)
LoadModel_hoisted ==
    /\ pc = "model"
    /\ IF config.lm_type \in DOMAIN mode_id
       THEN /\ IF objects = <<>>
               THEN /\ objects' =
                          <<[cls |-> "encoder", created_in |-> i, trained_in |-> {},
                             bert_encoder |-> 0, head |-> NoClf],
                            [cls |-> "BertClassifier", created_in |-> i,
                             trained_in |-> {}, bert_encoder |-> 1,
                             head |-> BertClassifier_init(MaxHidden, num_classes,
                                                          TRUE, "")]>>
                    /\ bert_model' = 1
                    /\ model' = 2
               ELSE UNCHANGED <<objects, bert_model, model>>
            /\ pc' = "split"
            /\ err' = err
       ELSE /\ pc' = "aborted"
            /\ err' = "KeyError"
            /\ UNCHANGED <<objects, bert_model, model>>
    /\ UNCHANGED <<config, i, data, text, splitVars, encVars, dsVars, trainer,
                   resultVars, fwdVars>>

\* lines 120-123: mode_id[config.lm_type] raises KeyError for an unknown
\* key; otherwise a new encoder and a new classifier around it are built
LoadModel ==
    /\ pc = "model"
    /\ IF config.lm_type \in DOMAIN mode_id
       THEN /\ objects' = objects \o
                  <<[cls |-> "encoder", created_in |-> i, trained_in |-> {},
                     bert_encoder |-> 0, head |-> NoClf],
                    [cls |-> "BertClassifier", created_in |-> i, trained_in |-> {},
                     bert_encoder |-> Len(objects) + 1,
                     head |-> BertClassifier_init(MaxHidden, num_classes, TRUE, "")]>>
            /\ bert_model' = Len(objects) + 1
            /\ model' = Len(objects) + 2
            /\ pc' = "split"
            /\ err' = err
       ELSE /\ pc' = "aborted"
            /\ err' = "KeyError"
            /\ UNCHANGED <<objects, bert_model, model>>
    /\ UNCHANGED <<config, i, data, text, splitVars, encVars, dsVars, trainer,
                   resultVars, fwdVars>>

\* a slip: val_idx derived from train_mask (a copied line left unedited)
Split_copied_mask ==
    LET tr == MaskToIdx(data.train_mask)
        va == MaskToIdx(data.train_mask)
        te == MaskToIdx(data.test_mask)
        ctr == collect_txt(tr, text)
        cva == collect_txt(va, text)
        cte == collect_txt(te, text)
    IN  /\ pc = "split"
        /\ train_idx' = tr /\ val_idx' = va /\ test_idx' = te
        /\ train_txt' = IF ctr.ok THEN ctr.val ELSE train_txt
        /\ val_txt' = IF ctr.ok /\ cva.ok THEN cva.val ELSE val_txt
        /\ test_txt' = IF ctr.ok /\ cva.ok /\ cte.ok THEN cte.val ELSE test_txt
        /\ IF ctr.ok /\ cva.ok /\ cte.ok
           THEN pc' = "tokenize" /\ err' = err
           ELSE pc' = "aborted" /\ err' = "TypeError"
        /\ UNCHANGED <<config, i, data, text, encVars, dsVars, modelVars,
                       resultVars, fwdVars>>

\* lines 126-131: the three index lists, then the three text lists; the
\* first collect_txt that raises ends the run with the later names unassigned
Split ==
    LET tr == MaskToIdx(data.train_mask)
        va == MaskToIdx(data.val_mask)
        te == MaskToIdx(data.test_mask)
        ctr == collect_txt(tr, text)
        cva == collect_txt(va, text)
        cte == collect_txt(te, text)
    IN  /\ pc = "split"
        /\ train_idx' = tr /\ val_idx' = va /\ test_idx' = te
        /\ train_txt' = IF ctr.ok THEN ctr.val ELSE train_txt
        /\ val_txt' = IF ctr.ok /\ cva.ok THEN cva.val ELSE val_txt
        /\ test_txt' = IF ctr.ok /\ cva.ok /\ cte.ok THEN cte.val ELSE test_txt
        /\ IF ctr.ok /\ cva.ok /\ cte.ok
           THEN pc' = "tokenize" /\ err' = err
           ELSE pc' = "aborted" /\ err' = "TypeError"
        /\ UNCHANGED <<config, i, data, text, encVars, dsVars, modelVars,
                       resultVars, fwdVars>>

\* lines 133-135
Tokenize ==
    /\ pc = "tokenize"
    /\ train_encodings' = tokenizer(train_txt)
    /\ val_encodings' = tokenizer(val_txt)
    /\ test_encodings' = tokenizer(test_txt)
    /\ pc' = "dataset"
    /\ UNCHANGED <<config, err, i, data, text, splitVars, dsVars, modelVars,
                   resultVars, fwdVars>>

\* lines 137-139
BuildDatasets ==
    /\ pc = "dataset"
    /\ train_dataset' = NCDataset(train_encodings, IndexByList(data.y, train_idx))
    /\ val_dataset' = NCDataset(val_encodings, IndexByList(data.y, val_idx))
    /\ test_dataset' = NCDataset(test_encodings, IndexByList(data.y, test_idx))
    /\ pc' = "train"
    /\ UNCHANGED <<config, err, i, data, text, splitVars, encVars, modelVars,
                   resultVars, fwdVars>>

\* the parameter update of trainer.train(): the classifier the Trainer
\* holds and the encoder inside it are trained in trial s
Trained(objs, m, s) ==
    [o \in DOMAIN objs |->
        IF o = m \/ o = objs[m].bert_encoder
        THEN [objs[o] EXCEPT !.trained_in = @ \cup {s}]
        ELSE objs[o]]

\* lines 142-175: Trainer(model=model, ...) and trainer.train()
Train ==
    /\ pc = "train"
    /\ trainer' = model
    /\ objects' = Trained(objects, model, i)
    /\ pc' = "evaluate"
    /\ UNCHANGED <<config, err, i, data, text, splitVars, encVars, dsVars,
                   bert_model, model, resultVars, fwdVars>>

\* a slip: the prediction run on the validation dataset
Evaluate_on_val ==
    /\ pc = "evaluate"
    /\ \E predictions \in [1 .. NCDataset_len(val_dataset) -> LogitRows] :
           LET label_ids == val_dataset.labels
               p == [k \in 1 .. Len(predictions) |-> argmax(predictions[k])]
           IN  /\ preds' = p
               /\ acc' = Accuracy(p, label_ids)
    /\ pc' = "accumulate"
    /\ UNCHANGED <<config, err, i, data, text, splitVars, encVars, dsVars,
                   modelVars, acc_list, final_acc, final_acc_std, out, fwdVars>>

\* lines 179-181: trainer.predict(test_dataset), arg-max, accuracy
Evaluate ==
    /\ pc = "evaluate"
    /\ \E predictions \in [1 .. NCDataset_len(test_dataset) -> LogitRows] :
           LET label_ids == test_dataset.labels
               p == [k \in 1 .. Len(predictions) |-> argmax(predictions[k])]
           IN  /\ preds' = p
               /\ acc' = Accuracy(p, label_ids)
    /\ pc' = "accumulate"
    /\ UNCHANGED <<config, err, i, data, text, splitVars, encVars, dsVars,
                   modelVars, acc_list, final_acc, final_acc_std, out, fwdVars>>

\* a slip: one trial too many (range(6))
Accumulate_extra_trial ==
    /\ pc = "accumulate"
    /\ out' = Append(out, [line |-> "trial", i |-> i, acc |-> acc,
                           mean |-> Fmt2(NaN), std |-> Fmt2(NaN)])
    /\ acc_list' = Append(acc_list, acc)
    /\ IF i + 1 <= NumTrials
       THEN i' = i + 1 /\ pc' = "load"
       ELSE i' = i /\ pc' = "report"
    /\ UNCHANGED <<config, err, data, text, splitVars, encVars, dsVars,
                   modelVars, preds, acc, final_acc, final_acc_std, fwdVars>>

\* lines 182-183 and the loop step of line 115
Accumulate ==
    /\ pc = "accumulate"
    /\ out' = Append(out, [line |-> "trial", i |-> i, acc |-> acc,
                           mean |-> Fmt2(NaN), std |-> Fmt2(NaN)])
    /\ acc_list' = Append(acc_list, acc)
    /\ IF i + 1 < NumTrials
       THEN i' = i + 1 /\ pc' = "load"
       ELSE i' = i /\ pc' = "report"
    /\ UNCHANGED <<config, err, data, text, splitVars, encVars, dsVars,
                   modelVars, preds, acc, final_acc, final_acc_std, fwdVars>>

\* lines 186-187
Report ==
    /\ pc = "report"
    /\ final_acc' = np_mean(acc_list)
    /\ final_acc_std' = np_std(acc_list)
    /\ out' = Append(out, [line |-> "final", i |-> i, acc |-> NaN,
                           mean |-> Fmt2(np_mean(acc_list)),
                           std |-> Fmt2Sqrt(np_std(acc_list))])
    /\ pc' = "done"
    /\ UNCHANGED <<config, err, i, data, text, splitVars, encVars, dsVars,
                   modelVars, preds, acc, acc_list, fwdVars>>

\* an exception out of an external call (the loader, the hub, the
\* tokenizer or .to("cuda"), the Trainer, predict): nothing catches it
ExternalCalls == {"load", "model", "tokenize", "train", "evaluate"}

\* a change of behaviour: the trial body wrapped in try/except, so a failed
\* trial is skipped and the next seed is started
Fail_skip_trial ==
    /\ pc \in ExternalCalls
    /\ err' = "external"
    /\ IF i + 1 < NumTrials
       THEN i' = i + 1 /\ pc' = "load"
       ELSE i' = i /\ pc' = "report"
    /\ UNCHANGED <<config, data, text, splitVars, encVars, dsVars, modelVars,
                   resultVars, fwdVars>>

Fail ==
    /\ pc \in ExternalCalls
    /\ pc' = "aborted"
    /\ err' = "external"
    /\ UNCHANGED <<config, i, data, text, splitVars, encVars, dsVars, modelVars,
                   resultVars, fwdVars>>

\* trainer.train() raising after some parameter updates
FailTrain ==
    /\ pc = "train"
    /\ trainer' = model
    /\ objects' = Trained(objects, model, i)
    /\ pc' = "aborted"
    /\ err' = "external"
    /\ UNCHANGED <<config, i, data, text, splitVars, encVars, dsVars,
                   bert_model, model, resultVars, fwdVars>>

Next ==
    \/ Load \/ LoadModel \/ Split \/ Tokenize \/ BuildDatasets \/ Train
    \/ Evaluate \/ Accumulate \/ Report \/ Fail \/ FailTrain

Spec == Init /\ [][Next]_vars

(***************************************************************************)
(* One trial's data preparation on an arbitrary dataset: the state after   *)
(* lines 116-123 of the first trial, for every dataset in Datasets (masks  *)
(* that overlap, are empty or hold a single node included).                *)
(***************************************************************************)
InitSplit ==
    /\ config \in [lm_type : LmTypes \cap DOMAIN mode_id]
    /\ pc = "split"
    /\ err = ""
    /\ i = 0
    /\ data \in Datasets
    /\ text \in Corpora
    /\ objects =
           <<[cls |-> "encoder", created_in |-> 0, trained_in |-> {},
              bert_encoder |-> 0, head |-> NoClf],
             [cls |-> "BertClassifier", created_in |-> 0, trained_in |-> {},
              bert_encoder |-> 1,
              head |-> BertClassifier_init(MaxHidden, num_classes, TRUE, "")]>>
    /\ bert_model = 1 /\ model = 2 /\ trainer = 0
    /\ train_idx = NoIdx /\ val_idx = NoIdx /\ test_idx = NoIdx
    /\ train_txt = <<>> /\ val_txt = <<>> /\ test_txt = <<>>
    /\ train_encodings = NoEncodings
    /\ val_encodings = NoEncodings
    /\ test_encodings = NoEncodings
    /\ train_dataset = NoDataset /\ val_dataset = NoDataset
    /\ test_dataset = NoDataset
    /\ preds = <<>>
    /\ acc = NaN
    /\ acc_list = <<>>
    /\ final_acc = NaN
    /\ final_acc_std = NoStd
    /\ out = <<>>
    /\ FwdIdle

NextSplit == Split \/ Tokenize \/ BuildDatasets

SpecSplit == InitSplit /\ [][NextSplit]_vars

(***************************************************************************)
(* The report of lines 186-187 on accumulated accuracies of a test split   *)
(* of 100 nodes: the state after the fifth trial's append.                 *)
(***************************************************************************)
AccSamples == {Frac(70, 100), Frac(71, 100), Frac(72, 100), Frac(73, 100),
               Frac(75, 100), NaN}

InitReport ==
    /\ config \in [lm_type : LmTypes \cap DOMAIN mode_id]
    /\ pc = "report"
    /\ err = ""
    /\ i = NumTrials - 1
    /\ data = BlockSplit(0, 0)
    /\ text = CoraText
    /\ objects = <<>>
    /\ bert_model = 0 /\ model = 0 /\ trainer = 0
    /\ train_idx = NoIdx /\ val_idx = NoIdx /\ test_idx = NoIdx
    /\ train_txt = <<>> /\ val_txt = <<>> /\ test_txt = <<>>
    /\ train_encodings = NoEncodings
    /\ val_encodings = NoEncodings
    /\ test_encodings = NoEncodings
    /\ train_dataset = NoDataset /\ val_dataset = NoDataset
    /\ test_dataset = NoDataset
    /\ preds = <<>>
    /\ acc_list \in [1 .. NumTrials -> AccSamples]
    /\ acc = acc_list[NumTrials]
    /\ final_acc = NaN
    /\ final_acc_std = NoStd
    /\ out = [k \in 1 .. NumTrials |->
                 [line |-> "trial", i |-> k - 1, acc |-> acc_list[k],
                  mean |-> Fmt2(NaN), std |-> Fmt2(NaN)]]
    /\ FwdIdle

NextReport == Report

SpecReport == InitReport /\ [][NextReport]_vars

(***************************************************************************)
(* BertClassifier: construction, then forward calls.                       *)
(***************************************************************************)
FeatShrinkValues == {"", "1", "2"}

InitForward ==
    /\ DriverInit
    /\ config.lm_type \in DOMAIN mode_id
    /\ fpc = "args"
    /\ clf_args \in [hidden_size : 1 .. MaxHidden, n_labels : {1, num_classes},
                     cla_bias : BOOLEAN, feat_shrink : FeatShrinkValues]
    /\ clf = NoClf
    /\ batch = [B |-> 0, L |-> 0, labels |-> "None"]
    /\ output = Raised("none")

driverVars == <<config, pc, err, i, data, text, splitVars, encVars, dsVars,
                modelVars, resultVars>>

\* BertClassifier(model, n_labels, cla_bias=..., feat_shrink=...)
Construct ==
    /\ fpc = "args"
    /\ clf' = BertClassifier_init(clf_args.hidden_size, clf_args.n_labels,
                                  clf_args.cla_bias, clf_args.feat_shrink)
    /\ fpc' = "built"
    /\ UNCHANGED <<driverVars, clf_args, batch, output>>

\* model(input_ids, attention_mask, labels) on a (B x L) batch
Forward ==
    /\ fpc \in {"built", "called"}
    /\ \E B \in 0 .. MaxBatch, L \in 0 .. MaxSeqLen, labels \in {"None", "tensor"} :
           /\ batch' = [B |-> B, L |-> L, labels |-> labels]
           /\ output' = forward(clf, B, L, labels)
    /\ fpc' = "called"
    /\ UNCHANGED <<driverVars, clf_args, clf>>

NextForward == Construct \/ Forward

SpecForward == InitForward /\ [][NextForward]_vars

(***************************************************************************)
(* Properties of the split construction and of the datasets, under         *)
(* SpecSplit.                                                              *)
(***************************************************************************)
TrueSet(mask) == {n \in DOMAIN mask : mask[n]}

\* the node at Python position k of the ascending enumeration of a mask
KthTrue(mask, k) ==
    CHOOSE n \in TrueSet(mask) : Cardinality({m \in TrueSet(mask) : m < n}) = k

ItemSet(idx) == {idx.items[k] : k \in 1 .. Len(idx.items)}

SplitDone == pc # "split"

IndexListOf(mask, idx) ==
    /\ idx.kind = "list"
    /\ Len(idx.items) = Cardinality(TrueSet(mask))
    /\ \A k \in 1 .. (Len(idx.items) - 1) : idx.items[k] < idx.items[k + 1]
    /\ ItemSet(idx) = TrueSet(mask)
    /\ collect_txt(idx, text).ok
    /\ Len(collect_txt(idx, text).val) = Cardinality(TrueSet(mask))
    /\ \A k \in 1 .. Len(idx.items) :
           collect_txt(idx, text).val[k] = text[KthTrue(mask, k - 1)]

\* C1: for every boolean mask (masks with no true entry and with exactly one
\* true entry included) the index list derived from it is a list, as long as
\* the number of true entries, strictly ascending, holding exactly the
\* mask-true positions, and collect_txt returns the texts at those positions
\* in that order.
C1_IndexListOfEveryMask ==
    SplitDone =>
        /\ IndexListOf(data.train_mask, train_idx)
        /\ IndexListOf(data.val_mask, val_idx)
        /\ IndexListOf(data.test_mask, test_idx)

Exclusive(d) ==
    \A n \in DOMAIN d.train_mask :
        /\ ~(d.train_mask[n] /\ d.val_mask[n])
        /\ ~(d.train_mask[n] /\ d.test_mask[n])
        /\ ~(d.val_mask[n] /\ d.test_mask[n])

\* C2: when the three masks are mutually exclusive, train_idx, val_idx and
\* test_idx are pairwise disjoint, and the three datasets hold one entry per
\* node of their own index list, so no node is in more than one dataset.
C2_DisjointSplits ==
    (SplitDone /\ Exclusive(data)) =>
        /\ ItemSet(train_idx) \cap ItemSet(val_idx) = {}
        /\ ItemSet(train_idx) \cap ItemSet(test_idx) = {}
        /\ ItemSet(val_idx) \cap ItemSet(test_idx) = {}
        /\ pc = "train" =>
               /\ NCDataset_len(train_dataset) = Cardinality(ItemSet(train_idx))
               /\ NCDataset_len(val_dataset) = Cardinality(ItemSet(val_idx))
               /\ NCDataset_len(test_dataset) = Cardinality(ItemSet(test_idx))
               /\ NCDataset_len(train_dataset) + NCDataset_len(val_dataset)
                      + NCDataset_len(test_dataset) <= NumNodes

C2_Witness ==
    /\ pc = "train"
    /\ Exclusive(data)
    /\ NCDataset_len(train_dataset) = 2
    /\ NCDataset_len(test_dataset) = 2
    /\ ItemSet(train_idx) \cup ItemSet(test_idx) = Nodes

\* the tokens of a padded row that the attention mask marks as real
RealTokens(item) == SubSeq(item.input_ids, 1, SumSeq(item.attention_mask))

DatasetAligned(ds, enc, mask) ==
    LET n == Cardinality(TrueSet(mask))
    IN  /\ NCDataset_len(ds) = n
        /\ \A k \in 0 .. (n - 1) :
               LET item == NCDataset_getitem(ds, k)
                   node == KthTrue(mask, k)
               IN  /\ DOMAIN item = {"input_ids", "attention_mask", "labels"}
                   /\ item.input_ids = enc.input_ids[k + 1]
                   /\ item.attention_mask = enc.attention_mask[k + 1]
                   /\ RealTokens(item) = <<CLS>> \o text[node] \o <<SEP>>
                   /\ item.labels = data.y[node]

\* C3: each dataset is as long as its split has nodes, and item k holds
\* every encoded field at position k together with the label of the node
\* whose text is encoded at position k.
C3_DatasetAligned ==
    pc = "train" =>
        /\ DatasetAligned(train_dataset, train_encodings, data.train_mask)
        /\ DatasetAligned(val_dataset, val_encodings, data.val_mask)
        /\ DatasetAligned(test_dataset, test_encodings, data.test_mask)

C3_Witness ==
    /\ pc = "train"
    /\ TrueSet(data.train_mask) = {1, 3}
    /\ NCDataset_len(train_dataset) = 2
    /\ NCDataset_getitem(train_dataset, 1).labels = 3
    /\ NCDataset_len(test_dataset) = 3

(***************************************************************************)
(* Properties of the five-seed run, under Spec.                            *)
(***************************************************************************)
PhaseAfter ==
    [load |-> {"model"}, model |-> {"split"}, split |-> {"tokenize"},
     tokenize |-> {"dataset"}, dataset |-> {"train"}, train |-> {"evaluate"},
     evaluate |-> {"accumulate"}, accumulate |-> {"load", "report"},
     report |-> {"done"}, done |-> {}, aborted |-> {}]

C4_StateOk ==
    /\ i \in 0 .. (NumTrials - 1)
    /\ Len(acc_list) = IF pc \in {"report", "done"} THEN NumTrials ELSE i
    /\ Len(out) = Len(acc_list) + (IF pc = "done" THEN 1 ELSE 0)
    /\ \A k \in 1 .. Len(acc_list) :
           out[k].line = "trial" /\ out[k].i = k - 1 /\ out[k].acc = acc_list[k]
    /\ pc = "done" => out[NumTrials + 1].line = "final"

C4_StepOk ==
    /\ pc' # pc => pc' \in PhaseAfter[pc] \cup {"aborted"}
    /\ i' # i => i' = i + 1 /\ pc = "accumulate" /\ pc' = "load"
    /\ acc_list' # acc_list =>
           pc = "accumulate" /\ Len(acc_list') = Len(acc_list) + 1
    /\ pc' = "report" => pc = "accumulate" /\ i = NumTrials - 1

\* C4: five trials, for the seeds 0..4 in order and one at a time; the
\* phases of a trial follow in order; the next trial starts only with the
\* append of the current accuracy; the accumulator is as long as the number
\* of completed trials; the aggregate line is printed once, after the five
\* per-seed lines.
C4_SequentialTrials == [](C4_StateOk) /\ [][C4_StepOk]_vars

C4_Witness ==
    /\ pc = "done"
    /\ Len(acc_list) = NumTrials
    /\ Len(out) = NumTrials + 1
    /\ out[NumTrials + 1].line = "final"
    /\ \A k \in 1 .. NumTrials : out[k].line = "trial"

C5_StateOk ==
    err # "" =>
        /\ pc = "aborted"
        /\ Len(acc_list) = i
        /\ Len(out) = i
        /\ \A k \in 1 .. Len(out) : out[k].line = "trial"
        /\ final_acc = NaN

C5_StepOk ==
    /\ err' # "" =>
           /\ pc' = "aborted"
           /\ i' = i
           /\ acc_list' = acc_list
           /\ out' = out
    /\ pc = "aborted" => UNCHANGED vars

\* C5: an exception raised in any phase of any trial ends the run: the
\* failed trial is not retried, no later seed starts, nothing is appended
\* for the failed trial and the aggregate line is never printed.
C5_FailureIsFatal == [](C5_StateOk) /\ [][C5_StepOk]_vars

C5_Witness ==
    /\ pc = "aborted"
    /\ err = "external"
    /\ i = 2
    /\ Len(acc_list) = 2
    /\ trainer = model
    /\ objects[model].trained_in = {2}

\* C6: the classifier given to the trainer in a trial, and the encoder
\* inside it, were constructed in that trial and have never been trained;
\* no object is ever trained in a trial other than the one that built it;
\* the datasets the trainer works on are those of the trial's own data.
C6_FreshModelPerTrial ==
    /\ \A o \in DOMAIN objects : objects[o].trained_in \subseteq {objects[o].created_in}
    /\ pc = "train" =>
           /\ model # 0
           /\ bert_model = objects[model].bert_encoder
           /\ objects[model].created_in = i
           /\ objects[model].trained_in = {}
           /\ objects[bert_model].created_in = i
           /\ objects[bert_model].trained_in = {}
    /\ pc \in {"evaluate", "accumulate"} =>
           /\ trainer = model
           /\ objects[trainer].created_in = i
           /\ objects[trainer].trained_in = {i}
    /\ pc \in {"train", "evaluate"} =>
           /\ DatasetAligned(train_dataset, train_encodings, data.train_mask)
           /\ DatasetAligned(val_dataset, val_encodings, data.val_mask)
           /\ DatasetAligned(test_dataset, test_encodings, data.test_mask)

C6_Witness ==
    /\ pc = "train"
    /\ i = 1
    /\ Len(objects) = 4
    /\ objects[2].trained_in = {0}
    /\ model = 4

ExampleAccuracies ==
    <<Frac(70, 100), Frac(72, 100), Frac(75, 100), Frac(71, 100), Frac(73, 100)>>

\* an accuracy of AccSamples as a whole number of hundredths
Hundredths(a) == a[1] * (100 \div a[2])

\* C8: the report is the arithmetic mean and the population standard
\* deviation (the squared deviations are divided by the number of trials) of
\* the accumulated accuracies, each printed as a percentage rounded to two
\* decimals; for [0.70, 0.72, 0.75, 0.71, 0.73] the mean is 0.722 (72.20) and
\* the standard deviation 0.0172 (1.72).
C8_MeanAndPopulationStd ==
    (pc = "done" /\ \A k \in 1 .. Len(acc_list) : ~IsNaN(acc_list[k])) =>
        LET n == Len(acc_list)
            c == [k \in 1 .. n |-> Hundredths(acc_list[k])]
            S == SumSeq(c)
            Q == SumSeq([k \in 1 .. n |-> (n * c[k] - S) * (n * c[k] - S)])
            line == out[Len(out)]
            m == line.mean.digits
            sd == line.std.digits
        IN  /\ final_acc = Frac(S, 100 * n)
            /\ final_acc_std.radicand = Frac(Q, n * n * n * 10000)
            /\ line.line = "final"
            /\ ~line.mean.nan /\ ~line.std.nan
            /\ 2 * Abs(m * 100 * n - 10000 * S) <= 100 * n
            /\ sd >= 0
            /\ sd > 0 => (2 * sd - 1) * (2 * sd - 1) * n * n * n <= 4 * Q * 10000
            /\ 4 * Q * 10000 < (2 * sd + 1) * (2 * sd + 1) * n * n * n
            /\ acc_list = ExampleAccuracies =>
                   /\ final_acc = <<361, 500>>
                   /\ m = 7220
                   /\ sd = 172

C8_Witness ==
    /\ pc = "done"
    /\ acc_list = ExampleAccuracies
    /\ out[Len(out)].line = "final"

(***************************************************************************)
(* The forward pass, under SpecForward.                                    *)
(***************************************************************************)
\* C9: for any batch size B, sequence length L >= 1 and hidden size H, the
\* logits have shape (B x n_labels), whatever L is; row b is computed from
\* the final hidden state of item b at sequence position 0, through the
\* projection layer if and only if feat_shrink is non-empty, then through
\* the classification layer, whose input dimension is the reduced dimension
\* when there is a projection and H otherwise.
C9_LogitsShape ==
    (fpc = "called" /\ batch.L >= 1 /\ batch.labels = "tensor") =>
        /\ ~output.raised
        /\ output.logits.shape = <<batch.B, clf_args.n_labels>>
        /\ \A b \in 0 .. (batch.B - 1) :
               /\ output.logits.vals[b].item = b
               /\ output.logits.vals[b].pos = 0
               /\ output.logits.vals[b].layers =
                      IF clf_args.feat_shrink = "" THEN <<"classifier">>
                      ELSE <<"feat_shrink_layer", "classifier">>
        /\ clf.classifier.in_features =
               IF clf_args.feat_shrink = "" THEN clf_args.hidden_size
               ELSE StrToInt(clf_args.feat_shrink)
        /\ clf.classifier.out_features = clf_args.n_labels
        /\ clf_args.feat_shrink # "" =>
               /\ clf.feat_shrink_layer.in_features = clf_args.hidden_size
               /\ clf.feat_shrink_layer.out_features = StrToInt(clf_args.feat_shrink)

C9_Witness ==
    /\ fpc = "called"
    /\ batch = [B |-> MaxBatch, L |-> MaxSeqLen, labels |-> "tensor"]
    /\ clf_args.feat_shrink = "1"
    /\ clf_args.hidden_size = MaxHidden
    /\ ~output.raised
    /\ output.logits.shape = <<MaxBatch, clf_args.n_labels>>

\* C10: forward computes the loss on every call: a call without labels
\* reaches the loss computation, which raises on the missing labels, and
\* never returns a result holding only logits; every result returned holds
\* a loss.
C10_LossAlwaysComputed ==
    (fpc = "called" /\ batch.L >= 1) =>
        /\ batch.labels = "None" =>
               output.raised /\ output.at = "loss_func" /\ ~output.has_loss
        /\ ~output.raised => output.has_loss /\ batch.labels = "tensor"

C10_Witness ==
    /\ fpc = "called"
    /\ batch.labels = "None"
    /\ batch.L >= 1
    /\ batch.B >= 1
    /\ output.raised
    /\ output.at = "loss_func"

=============================================================================
